---- MODULE Spec2Model ----
(***************************************************************************)
(* A model of the GraphView widget of egui_graphs (src/src/graph_view.rs)  *)
(* and of the hit test of its graph wrapper (src/src/graph_wrapper.rs).    *)
(*                                                                         *)
(* One frame (Widget::ui) is one action.  The state carried from frame to  *)
(* frame is the graph (node locations and flags) and the viewport          *)
(* Metadata (pan, zoom, first_frame) kept in the ui memory.  The widget    *)
(* itself is rebuilt by the client every frame (new and the with_..       *)
(* builders), so its                                                       *)
(* settings and subscribers are inputs of the frame.                       *)
(*                                                                         *)
(* f32 values are modelled as exact fractions <<n, d>> in lowest terms     *)
(* with d > 0, extended with the IEEE values +inf = <<1,0>>,               *)
(* -inf = <<-1,0>> and NaN = <<0,0>>, so that a division by zero and what  *)
(* follows from it is computed as the build computes it.  Rounding and     *)
(* the sign of zero are not modelled.                                      *)
(***************************************************************************)
EXTENDS Integers, Sequences, FiniteSets

----------------------------------------------------------------------------
(* f32 arithmetic *)

Abs(i) == IF i < 0 THEN -i ELSE i

Sgn(i) == IF i > 0 THEN 1 ELSE IF i < 0 THEN -1 ELSE 0

RECURSIVE GCD(_, _)
GCD(a, b) == IF b = 0 THEN a ELSE GCD(b, a % b)

\* the fraction n/d in lowest terms; n/0 is an infinity or NaN
Norm(n, d) ==
    IF d = 0 THEN <<Sgn(n), 0>>
    ELSE LET k == GCD(Abs(n), Abs(d))
         IN  <<Sgn(d) * Sgn(n) * (Abs(n) \div k), Abs(d) \div k>>

F(i) == <<i, 1>>

NaN == <<0, 0>>

IsNaN(a) == a[1] = 0 /\ a[2] = 0

IsInf(a) == a[1] # 0 /\ a[2] = 0

IsFinite(a) == a[2] # 0

FNeg(a) == <<-a[1], a[2]>>

FAdd(a, b) ==
    IF IsNaN(a) \/ IsNaN(b) THEN NaN
    ELSE IF IsInf(a) /\ IsInf(b) THEN (IF a = b THEN a ELSE NaN)
    ELSE IF IsInf(a) THEN a
    ELSE IF IsInf(b) THEN b
    ELSE Norm(a[1] * b[2] + b[1] * a[2], a[2] * b[2])

FSub(a, b) == FAdd(a, FNeg(b))

FMul(a, b) == Norm(a[1] * b[1], a[2] * b[2])

FDiv(a, b) ==
    IF IsNaN(a) \/ IsNaN(b) THEN NaN
    ELSE IF IsInf(b) THEN (IF IsInf(a) THEN NaN ELSE F(0))
    ELSE IF IsInf(a) THEN <<a[1] * (IF b[1] < 0 THEN -1 ELSE 1), 0>>
    ELSE Norm(a[1] * b[2], a[2] * b[1])

\* a == b of f32: NaN equals nothing
FEq(a, b) == ~IsNaN(a) /\ ~IsNaN(b) /\ a = b

\* a < b of f32: false when either is NaN
FLt(a, b) ==
    /\ ~IsNaN(a)
    /\ ~IsNaN(b)
    /\ IF IsInf(a) \/ IsInf(b)
       THEN \/ (a = <<-1, 0>> /\ b # <<-1, 0>>)
            \/ (b = <<1, 0>> /\ a # <<1, 0>>)
       ELSE a[1] * b[2] < b[1] * a[2]

FLe(a, b) == FLt(a, b) \/ FEq(a, b)

\* f32::min: the other operand when one is NaN
FMin(a, b) ==
    IF IsNaN(a) THEN b
    ELSE IF IsNaN(b) THEN a
    ELSE IF FLt(b, a) THEN b ELSE a

FMax(a, b) ==
    IF IsNaN(a) THEN b
    ELSE IF IsNaN(b) THEN a
    ELSE IF FLt(a, b) THEN b ELSE a

FAbs(a) == <<Abs(a[1]), a[2]>>

\* f32::signum: 1 for a positive number and for zero, -1 for a negative one
FSignum(a) ==
    IF IsNaN(a) THEN NaN
    ELSE IF a[1] < 0 THEN F(-1) ELSE F(1)

----------------------------------------------------------------------------
(* Vec2 / Pos2 / Rect of egui, as used by the widget *)

V(x, y) == <<F(x), F(y)>>

VZero == V(0, 0)

VAdd(u, v) == <<FAdd(u[1], v[1]), FAdd(u[2], v[2])>>

VSub(u, v) == <<FSub(u[1], v[1]), FSub(u[2], v[2])>>

VMul(u, s) == <<FMul(u[1], s), FMul(u[2], s)>>

VDiv(u, s) == <<FDiv(u[1], s), FDiv(u[2], s)>>

VEq(u, v) == FEq(u[1], v[1]) /\ FEq(u[2], v[2])

\* |u| <= r, with |u| the Euclidean length and r >= 0
VLengthLe(u, r) ==
    FLe(FAdd(FMul(u[1], u[1]), FMul(u[2], u[2])), FMul(r, r))

RectSize(rect) == VSub(rect.max, rect.min)

RectCenter(rect) == VDiv(VAdd(rect.min, rect.max), F(2))

----------------------------------------------------------------------------
(* State *)

VARIABLES
    g,          \* the graph: node index -> [location, selected, dragged]
    meta,       \* the Metadata kept in the ui memory: [pan, zoom, first_frame]
    ptr,        \* the pointer of the render surface: [down, click]
    last,       \* what the last step was and what it did (history); for a
                \* frame that reported a double click, also the frame
                \* before it, which reported the first click
    nframes,    \* the number of frames run so far
    wg,         \* the StableGraph a GraphWrapper wraps for a walk:
                \* [nodes, edges], slot index -> weight or Vacant
    calls,      \* the callbacks walk has made so far, in order
    wpos        \* the position of walk in nodes() followed by edges()

vars == <<g, meta, ptr, last, nframes, wg, calls, wpos>>

\* Option::None of a node index
NoNode == 0

\* Option::None of a position
NoPos == <<>>

\* the radius of a node in graph units
Radius == F(1)

----------------------------------------------------------------------------
(* Change records and navigation events *)

ChangeSelected(idx, old, new) ==
    [kind |-> "SelectionChanged", id |-> idx, old |-> old, new |-> new]

ChangeDragged(idx, old, new) ==
    [kind |-> "DraggedChanged", id |-> idx, old |-> old, new |-> new]

ChangeLocation(idx, old, new) ==
    [kind |-> "LocationMoved", id |-> idx, old |-> old, new |-> new]

ChangeClicked(idx) == [kind |-> "Clicked", id |-> idx]

ChangeDoubleClicked(idx) == [kind |-> "DoubleClicked", id |-> idx]

EventPan(diff) == [kind |-> "Pan", diff |-> diff]

EventZoom(diff) == [kind |-> "Zoom", diff |-> diff]

\* A frame in progress, fs: the graph and the metadata as the frame has
\* changed them so far, what it has sent to the two channels, whether
\* fit_to_screen has run in it, and its status: "running", "panicked" (an
\* unwrap of a failed send), "blocked" (in a send that cannot return) or
\* "no_node" (an unwrap of the lookup of an index the graph does not hold).
\* Nothing runs in a frame that has panicked or is blocked.  self is the
\* widget: [settings_interaction, settings_navigation, changes_sender,
\* events_publisher, changes_channel, events_channel].

\* The crossbeam channel behind a Sender, as the frame finds it: closed
\* (every Receiver dropped), or open, bounded with room free slots or
\* unbounded.  The subscriber receives between frames only.
Unbounded == [closed |-> FALSE, bounded |-> FALSE, room |-> 0]

Bounded(room) == [closed |-> FALSE, bounded |-> TRUE, room |-> room]

Closed == [closed |-> TRUE, bounded |-> FALSE, room |-> 0]

\* Sender::send(msg).unwrap() after sent messages of this frame: Err on a
\* closed channel, so unwrap panics; on a full channel send waits for a
\* Receiver that does not run during the frame
send_unwrap(channel, sent) ==
    IF channel.closed THEN "panicked"
    ELSE IF channel.bounded /\ Len(sent) >= channel.room THEN "blocked"
    ELSE "running"

send_changes(self, fs, change) ==
    IF self.changes_sender /\ fs.status = "running"
    THEN LET status == send_unwrap(self.changes_channel, fs.changes)
         IN  IF status = "running"
             THEN [fs EXCEPT !.changes = Append(@, change)]
             ELSE [fs EXCEPT !.status = status]
    ELSE fs

publish_event(self, fs, event) ==
    IF self.events_publisher /\ fs.status = "running"
    THEN LET status == send_unwrap(self.events_channel, fs.events)
         IN  IF status = "running"
             THEN [fs EXCEPT !.events = Append(@, event)]
             ELSE [fs EXCEPT !.status = status]
    ELSE fs

----------------------------------------------------------------------------
(* Graph access and computed state *)

\* the node indices in the order node_indices / node_references yield them
RECURSIVE NodeOrder(_)
NodeOrder(ids) ==
    IF ids = {} THEN <<>>
    ELSE LET m == CHOOSE i \in ids : \A j \in ids : i <= j
         IN  <<m>> \o NodeOrder(ids \ {m})

\* mutant: the hit is reported by its place in the iteration order
node_by_pos_ordinal(graph, m, pos) ==
    LET pos_in_graph == VDiv(VSub(pos, m.pan), m.zoom)
        order == NodeOrder(DOMAIN graph)
        hits == {k \in 1..Len(order) :
                    VLengthLe(VSub(graph[order[k]].location, pos_in_graph), Radius)}
    IN  IF hits = {} THEN NoNode
        ELSE CHOOSE k \in hits : \A j \in hits : k <= j

\* the first node in iteration order that contains the screen position
node_by_pos(graph, m, pos) ==
    LET pos_in_graph == VDiv(VSub(pos, m.pan), m.zoom)
        order == NodeOrder(DOMAIN graph)
        hits == {k \in 1..Len(order) :
                    VLengthLe(VSub(graph[order[k]].location, pos_in_graph), Radius)}
    IN  IF hits = {} THEN NoNode
        ELSE order[CHOOSE k \in hits : \A j \in hits : k <= j]

\* ComputedState::compute_for_node over all nodes: the selected indices in
\* iteration order and the dragged index, the last one found
RECURSIVE compute_for_nodes(_, _, _)
compute_for_nodes(graph, order, comp) ==
    IF order = <<>> THEN comp
    ELSE LET idx == Head(order)
             n == graph[idx]
             c1 == IF n.dragged THEN [comp EXCEPT !.dragged = idx] ELSE comp
             c2 == IF n.selected THEN [c1 EXCEPT !.selected = Append(@, idx)] ELSE c1
         IN  compute_for_nodes(graph, Tail(order), c2)

\* ComputedState::comp_iter_bounds: folds the box of one node, its location
\* inflated by the radius, into the running bounds
comp_iter_bounds(acc, n) ==
    [min |-> <<FMin(acc.min[1], FSub(n.location[1], Radius)),
               FMin(acc.min[2], FSub(n.location[2], Radius))>>,
     max |-> <<FMax(acc.max[1], FAdd(n.location[1], Radius)),
               FMax(acc.max[2], FAdd(n.location[2], Radius))>>]

RECURSIVE bounds_of(_, _, _)
bounds_of(graph, order, acc) ==
    IF order = <<>> THEN acc
    ELSE bounds_of(graph, Tail(order), comp_iter_bounds(acc, graph[Head(order)]))

\* ComputedState::graph_bounds: zero extent for the empty graph
graph_bounds(graph) ==
    LET order == NodeOrder(DOMAIN graph)
    IN  IF order = <<>> THEN [min |-> VZero, max |-> VZero]
        ELSE LET n == graph[Head(order)]
             IN  bounds_of(graph, order,
                           [min |-> VSub(n.location, <<Radius, Radius>>),
                            max |-> VAdd(n.location, <<Radius, Radius>>)])

compute_state(graph) ==
    LET c == compute_for_nodes(graph, NodeOrder(DOMAIN graph),
                               [dragged |-> NoNode, selected |-> <<>>])
    IN  [dragged |-> c.dragged, selected |-> c.selected,
         bounds |-> graph_bounds(graph)]

----------------------------------------------------------------------------
(* Mutations of nodes, each with its change record *)

\* self.g.node(idx).unwrap() / self.g.node_mut(idx).unwrap(): the lookup of
\* an index the graph does not hold gives None, and unwrap panics
unwrap_node(fs, idx) ==
    IF idx \in DOMAIN fs.g THEN fs ELSE [fs EXCEPT !.status = "no_node"]

toggle_selection_node(self, fs, idx) ==
    IF fs.status # "running" THEN fs
    ELSE IF unwrap_node(fs, idx).status # "running" THEN unwrap_node(fs, idx)
    ELSE LET old == fs.g[idx].selected
         IN  send_changes(self, [fs EXCEPT !.g[idx].selected = ~old],
                          ChangeSelected(idx, old, ~old))

set_node_clicked(self, fs, idx) == send_changes(self, fs, ChangeClicked(idx))

set_node_double_clicked(self, fs, idx) ==
    send_changes(self, fs, ChangeDoubleClicked(idx))

\* toggles every node of the frame's computed selection, in its order
RECURSIVE toggle_each(_, _, _)
toggle_each(self, fs, idxs) ==
    IF idxs = <<>> THEN fs
    ELSE toggle_each(self, toggle_selection_node(self, fs, Head(idxs)), Tail(idxs))

deselect_all(self, fs, comp) == toggle_each(self, fs, comp.selected)

move_node(self, fs, idx, delta) ==
    IF fs.status # "running" THEN fs
    ELSE IF unwrap_node(fs, idx).status # "running" THEN unwrap_node(fs, idx)
    ELSE LET old == fs.g[idx].location
             new == VAdd(old, delta)
         IN  send_changes(self, [fs EXCEPT !.g[idx].location = new],
                          ChangeLocation(idx, old, new))

set_dragged(self, fs, idx, val) ==
    IF fs.status # "running" THEN fs
    ELSE IF unwrap_node(fs, idx).status # "running" THEN unwrap_node(fs, idx)
    ELSE LET old == fs.g[idx].dragged
         IN  send_changes(self, [fs EXCEPT !.g[idx].dragged = val],
                          ChangeDragged(idx, old, val))

----------------------------------------------------------------------------
(* Viewport *)

MetadataDefault == [pan |-> VZero, zoom |-> F(1), first_frame |-> TRUE]

set_pan(self, val, fs) ==
    IF fs.status # "running" THEN fs
    ELSE LET diff == VSub(val, fs.meta.pan)
         IN  publish_event(self, [fs EXCEPT !.meta.pan = val], EventPan(diff))

\* mutant: the Zoom event carries the new zoom instead of the difference
set_zoom_reports_value(self, val, fs) ==
    publish_event(self, [fs EXCEPT !.meta.zoom = val], EventZoom(val))

set_zoom(self, val, fs) ==
    IF fs.status # "running" THEN fs
    ELSE LET diff == FSub(val, fs.meta.zoom)
         IN  publish_event(self, [fs EXCEPT !.meta.zoom = val], EventZoom(diff))

\* zooms by delta about zoom_center (the centre of the canvas if absent)
zoom(self, rect, delta, zoom_center, fs) ==
    LET center_pos == IF zoom_center # NoPos
                      THEN VSub(zoom_center, rect.min)
                      ELSE VSub(RectCenter(rect), rect.min)
        graph_center_pos == VDiv(VSub(center_pos, fs.meta.pan), fs.meta.zoom)
        factor == FAdd(F(1), delta)
        new_zoom == FMul(fs.meta.zoom, factor)
        pan_delta == VSub(VMul(graph_center_pos, fs.meta.zoom),
                          VMul(graph_center_pos, new_zoom))
        new_pan == VAdd(fs.meta.pan, pan_delta)
    IN  set_zoom(self, new_zoom, set_pan(self, new_pan, fs))

fit_to_screen(self, rect, fs, comp) ==
    LET bounds == comp.bounds
        diag0 == VSub(bounds.max, bounds.min)
        diag == IF VEq(diag0, VZero) THEN <<F(1), F(100)>> ELSE diag0
        graph_size == VMul(diag, FAdd(F(1), self.settings_navigation.screen_padding))
        canvas_size == RectSize(rect)
        zoom_x == FDiv(canvas_size[1], graph_size[1])
        zoom_y == FDiv(canvas_size[2], graph_size[2])
        new_zoom == FMin(zoom_x, zoom_y)
        zoom_delta == FSub(FDiv(new_zoom, fs.meta.zoom), F(1))
        fs1 == zoom(self, rect, zoom_delta, NoPos, fs)
        graph_center == VDiv(VAdd(bounds.min, bounds.max), F(2))
        new_pan == VSub(RectCenter(rect), VMul(graph_center, new_zoom))
    IN  set_pan(self, new_pan, fs1)

\* mutant: first_frame is not cleared
handle_fit_to_screen_keeps_first(self, resp, fs, comp) ==
    IF ~fs.meta.first_frame /\ ~self.settings_navigation.fit_to_screen_enabled
    THEN fs
    ELSE LET fs1 == fit_to_screen(self, resp.rect, fs, comp)
         IN  [fs1 EXCEPT !.fitted = TRUE]

handle_fit_to_screen(self, resp, fs, comp) ==
    IF ~fs.meta.first_frame /\ ~self.settings_navigation.fit_to_screen_enabled
    THEN fs
    ELSE LET fs1 == fit_to_screen(self, resp.rect, fs, comp)
         IN  IF fs1.status # "running" THEN [fs1 EXCEPT !.fitted = TRUE]
             ELSE [fs1 EXCEPT !.meta.first_frame = FALSE, !.fitted = TRUE]

handle_zoom(self, resp, fs) ==
    IF ~self.settings_navigation.zoom_and_pan_enabled THEN fs
    ELSE LET delta == resp.zoom_delta
         IN  IF FEq(delta, F(1)) THEN fs
             ELSE LET step == FMul(self.settings_navigation.zoom_speed,
                                   FSignum(FSub(F(1), delta)))
                  IN  zoom(self, resp.rect, step, resp.hover_pos, fs)

NonZero(delta) == FLt(F(0), FAbs(delta[1])) \/ FLt(F(0), FAbs(delta[2]))

\* mutant: the canvas is panned by moving every node
RECURSIVE move_each(_, _, _, _)
move_each(self, fs, idxs, delta) ==
    IF idxs = <<>> THEN fs
    ELSE move_each(self, move_node(self, fs, Head(idxs), delta), Tail(idxs), delta)

handle_pan_moves_nodes(self, resp, fs, comp) ==
    IF ~self.settings_navigation.zoom_and_pan_enabled THEN fs
    ELSE IF resp.dragged /\ comp.dragged = NoNode /\ NonZero(resp.drag_delta)
         THEN move_each(self, fs, NodeOrder(DOMAIN fs.g),
                        VDiv(resp.drag_delta, fs.meta.zoom))
         ELSE fs

\* mutant: the drag delta is converted to graph units before it is added
handle_pan_in_graph_units(self, resp, fs, comp) ==
    IF ~self.settings_navigation.zoom_and_pan_enabled THEN fs
    ELSE IF resp.dragged /\ comp.dragged = NoNode /\ NonZero(resp.drag_delta)
         THEN set_pan(self, VAdd(fs.meta.pan, VDiv(resp.drag_delta, fs.meta.zoom)), fs)
         ELSE fs

\* mutant: the canvas is panned also while a node is dragged
handle_pan_with_node(self, resp, fs, comp) ==
    IF ~self.settings_navigation.zoom_and_pan_enabled THEN fs
    ELSE IF resp.dragged /\ NonZero(resp.drag_delta)
         THEN set_pan(self, VAdd(fs.meta.pan, resp.drag_delta), fs)
         ELSE fs

handle_pan(self, resp, fs, comp) ==
    IF ~self.settings_navigation.zoom_and_pan_enabled THEN fs
    ELSE IF resp.dragged /\ comp.dragged = NoNode /\ NonZero(resp.drag_delta)
         THEN set_pan(self, VAdd(fs.meta.pan, resp.drag_delta), fs)
         ELSE fs

handle_navigation(self, resp, fs, comp) ==
    handle_pan(self, resp, handle_zoom(self, resp, fs), comp)

----------------------------------------------------------------------------
(* Interaction *)

handle_node_double_click(self, fs, idx) ==
    IF ~self.settings_interaction.clicking_enabled THEN fs
    ELSE set_node_double_clicked(self, fs, idx)

\* mutant: the other selected nodes are not deselected
handle_node_click_keeps_others(self, fs, idx, comp) ==
    LET si == self.settings_interaction
    IN  IF ~si.clicking_enabled /\ ~si.selection_enabled THEN fs
        ELSE LET fs1 == IF si.clicking_enabled
                        THEN set_node_clicked(self, fs, idx) ELSE fs
             IN  IF ~si.selection_enabled THEN fs1
                 ELSE toggle_selection_node(self, fs1, idx)

\* mutant: the clicked node is selected before the others are deselected
handle_node_click_selects_first(self, fs, idx, comp) ==
    LET si == self.settings_interaction
    IN  IF ~si.clicking_enabled /\ ~si.selection_enabled THEN fs
        ELSE LET fs1 == IF si.clicking_enabled
                        THEN set_node_clicked(self, fs, idx) ELSE fs
             IN  IF ~si.selection_enabled THEN fs1
                 ELSE IF fs1.g[idx].selected
                      THEN toggle_selection_node(self, fs1, idx)
                      ELSE LET fs2 == toggle_selection_node(self, fs1, idx)
                           IN  IF ~si.selection_multi_enabled
                               THEN deselect_all(self, fs2, comp)
                               ELSE fs2

handle_node_click(self, fs, idx, comp) ==
    LET si == self.settings_interaction
    IN  IF ~si.clicking_enabled /\ ~si.selection_enabled THEN fs
        ELSE LET fs1 == IF si.clicking_enabled
                        THEN set_node_clicked(self, fs, idx) ELSE fs
             IN  IF ~si.selection_enabled THEN fs1
                 ELSE IF fs1.status # "running" THEN fs1
                 ELSE IF unwrap_node(fs1, idx).status # "running"
                      THEN unwrap_node(fs1, idx)
                 ELSE IF fs1.g[idx].selected
                      THEN toggle_selection_node(self, fs1, idx)
                      ELSE LET fs2 == IF ~si.selection_multi_enabled
                                      THEN deselect_all(self, fs1, comp)
                                      ELSE fs1
                           IN  toggle_selection_node(self, fs2, idx)

\* mutant: a double click is handled as one more single click
handle_click_double_as_single(self, resp, fs, comp) ==
    LET si == self.settings_interaction
        clickable == si.clicking_enabled \/ si.selection_enabled
                        \/ si.selection_multi_enabled
        node == node_by_pos(fs.g, fs.meta, resp.hover_pos)
        selectable == si.selection_enabled \/ si.selection_multi_enabled
    IN  IF ~resp.clicked /\ ~resp.double_clicked THEN fs
        ELSE IF ~clickable THEN fs
        ELSE IF node = NoNode
             THEN (IF selectable THEN deselect_all(self, fs, comp) ELSE fs)
        ELSE handle_node_click(self, fs, node, comp)

handle_click(self, resp, fs, comp) ==
    LET si == self.settings_interaction
        clickable == si.clicking_enabled \/ si.selection_enabled
                        \/ si.selection_multi_enabled
        node == node_by_pos(fs.g, fs.meta, resp.hover_pos)
        selectable == si.selection_enabled \/ si.selection_multi_enabled
    IN  IF ~resp.clicked /\ ~resp.double_clicked THEN fs
        ELSE IF ~clickable THEN fs
        ELSE IF node = NoNode
             THEN (IF selectable THEN deselect_all(self, fs, comp) ELSE fs)
        ELSE IF resp.double_clicked
             THEN handle_node_double_click(self, fs, node)
        ELSE handle_node_click(self, fs, node, comp)

handle_node_drag(self, resp, comp, fs) ==
    IF ~self.settings_interaction.dragging_enabled THEN fs
    ELSE LET hit == node_by_pos(fs.g, fs.meta, resp.hover_pos)
             fs1 == IF resp.drag_started /\ hit # NoNode
                    THEN set_dragged(self, fs, hit, TRUE)
                    ELSE fs
             fs2 == IF resp.dragged /\ comp.dragged # NoNode
                       /\ NonZero(resp.drag_delta)
                    THEN move_node(self, fs1, comp.dragged,
                                   VDiv(resp.drag_delta, fs1.meta.zoom))
                    ELSE fs1
         IN  IF resp.drag_released /\ comp.dragged # NoNode
             THEN set_dragged(self, fs2, comp.dragged, FALSE)
             ELSE fs2

----------------------------------------------------------------------------
(* The frame *)

\* Widget::ui: the frame's result and, for the record, the frame as it
\* stood when navigation was done
ui(self, resp, graph, m) ==
    LET comp == compute_state(graph)
        fs0 == [g |-> graph, meta |-> m, changes |-> <<>>, events |-> <<>>,
                fitted |-> FALSE, status |-> "running"]
        fs1 == handle_fit_to_screen(self, resp, fs0, comp)
        fs2 == handle_navigation(self, resp, fs1, comp)
        fs3 == handle_node_drag(self, resp, comp, fs2)
        fs4 == handle_click(self, resp, fs3, comp)
    IN  [comp |-> comp, nav |-> fs2, out |-> fs4]

----------------------------------------------------------------------------
(* GraphWrapper over a StableGraph: traversal and lookup *)

MaxWalkNodes == 2

MaxWalkEdges == 2

\* a slot of the StableGraph whose element was removed (or never added)
Vacant == [vacant |-> TRUE]

NodeWeights == {[weight |-> "a"], [weight |-> "b"]}

\* the StableGraphs of up to MaxWalkNodes node slots and MaxWalkEdges edge
\* slots; the endpoints of an edge are nodes of the graph
StableGraphs ==
    {sg \in [nodes : [1..MaxWalkNodes -> NodeWeights \cup {Vacant}],
             edges : [1..MaxWalkEdges ->
                         [source : 1..MaxWalkNodes, target : 1..MaxWalkNodes]
                             \cup {Vacant}]] :
        \A k \in 1..MaxWalkEdges :
            sg.edges[k] # Vacant
                => /\ sg.nodes[sg.edges[k].source] # Vacant
                   /\ sg.nodes[sg.edges[k].target] # Vacant}

NoGraph ==
    [nodes |-> [k \in 1..MaxWalkNodes |-> Vacant],
     edges |-> [k \in 1..MaxWalkEdges |-> Vacant]]

\* the (index, element) pairs of the occupied slots, in index order
RECURSIVE references(_, _)
references(slots, k) ==
    IF k \notin DOMAIN slots THEN <<>>
    ELSE (IF slots[k] = Vacant THEN <<>> ELSE << <<k, slots[k]>> >>)
             \o references(slots, k + 1)

nodes(sg) == references(sg.nodes, 1)

edges(sg) == references(sg.edges, 1)

\* mutant: the lookup counts occupied slots instead of indexing the slots
node_by_position(sg, i) ==
    IF i \in 1..Len(nodes(sg)) THEN nodes(sg)[i][2] ELSE Vacant

\* Option<&Node>: the weight of slot i, None (Vacant) if there is none
node(sg, i) == IF i \in DOMAIN sg.nodes THEN sg.nodes[i] ELSE Vacant

edge(sg, i) == IF i \in DOMAIN sg.edges THEN sg.edges[i] ELSE Vacant

\* walk calls walker_node on the next node; the callback looks the node up
walker_node ==
    /\ wpos <= Len(nodes(wg))
    /\ LET ref == nodes(wg)[wpos]
       IN  calls' = Append(calls, [kind |-> "n", id |-> ref[1], elem |-> ref[2],
                                   found |-> node(wg, ref[1])])
    /\ wpos' = wpos + 1
    /\ UNCHANGED <<g, meta, ptr, last, nframes, wg>>

\* the nodes done, walk calls walker_edge on the next edge
walker_edge ==
    /\ wpos > Len(nodes(wg))
    /\ wpos <= Len(nodes(wg)) + Len(edges(wg))
    /\ LET ref == edges(wg)[wpos - Len(nodes(wg))]
       IN  calls' = Append(calls, [kind |-> "e", id |-> ref[1], elem |-> ref[2],
                                   found |-> edge(wg, ref[1])])
    /\ wpos' = wpos + 1
    /\ UNCHANGED <<g, meta, ptr, last, nframes, wg>>

----------------------------------------------------------------------------
(* Inputs: the widget the client builds and what the render surface reports *)

SettingsInteractions ==
    [clicking_enabled : BOOLEAN, selection_enabled : BOOLEAN,
     selection_multi_enabled : BOOLEAN, dragging_enabled : BOOLEAN]

ZoomSpeeds == {<<1, 2>>, F(1)}

Paddings == {F(0), F(1)}

SettingsNavigations ==
    [zoom_and_pan_enabled : BOOLEAN, fit_to_screen_enabled : BOOLEAN,
     zoom_speed : ZoomSpeeds, screen_padding : Paddings]

\* GraphView::new followed by the with_.. builders
new(si, sn, changes_sender, events_publisher) ==
    [settings_interaction |-> si, settings_navigation |-> sn,
     changes_sender |-> changes_sender, events_publisher |-> events_publisher,
     changes_channel |-> Unbounded, events_channel |-> Unbounded]

\* GraphView::with_changes / with_events with the Sender of the given channel
with_changes(self, channel) ==
    [self EXCEPT !.changes_sender = TRUE, !.changes_channel = channel]

with_events(self, channel) ==
    [self EXCEPT !.events_publisher = TRUE, !.events_channel = channel]

Widgets ==
    {new(si, sn, c, e) : si \in SettingsInteractions, sn \in SettingsNavigations,
                         c \in BOOLEAN, e \in BOOLEAN}

\* the canvas at the origin of the screen, and one that is not
Rect0 == [min |-> V(0, 0), max |-> V(12, 4)]

Rect1 == [min |-> V(2, 1), max |-> V(8, 5)]

Rects == {Rect0, Rect1}

\* pointer positions: on node 1, on node 2 and on neither, for the graph
\* Graph2 fitted to Rect0
OnNode1 == V(2, 2)

OnNode2 == V(10, 2)

OnNone == V(6, 2)

Positions == {OnNode1, OnNode2, OnNone}

Deltas == {V(0, 0), V(2, 0)}

ZoomDeltas == {F(1), F(2), <<1, 2>>}

\* What a Response can report when the pointer was in state p before the
\* frame: a drag starts on a press, lasts while the button is held and is
\* released once; a press and a release can fall into one frame, either a
\* press released at once (no drag is left) or the release of one drag
\* followed by the press of the next; a click is reported when no drag is
\* going on after the frame; a double click follows a click at the same
\* position; drag_delta is zero unless dragged.
ValidResponse(p, r) ==
    /\ r.double_clicked => (r.clicked /\ p.click = r.hover_pos /\ ~p.down)
    /\ r.drag_started => (r.dragged \/ r.drag_released)
    /\ (r.drag_started /\ ~r.drag_released) => ~p.down
    /\ r.dragged => (p.down \/ r.drag_started)
    /\ r.drag_released => (p.down \/ r.drag_started)
    /\ (r.drag_released /\ ~r.drag_started) => ~r.dragged
    /\ (r.drag_released /\ r.drag_started) => (r.dragged <=> p.down)
    /\ p.down => (r.dragged \/ r.drag_released)
    /\ r.clicked => ~r.dragged
    /\ ~r.dragged => r.drag_delta = V(0, 0)

Responses ==
    [rect : Rects, hover_pos : Positions, clicked : BOOLEAN,
     double_clicked : BOOLEAN, drag_started : BOOLEAN, dragged : BOOLEAN,
     drag_released : BOOLEAN, drag_delta : Deltas, zoom_delta : ZoomDeltas]

\* the pointer after a frame that reported r
PointerAfter(r) ==
    [down |-> r.dragged,
     click |-> IF r.clicked /\ ~r.double_clicked THEN r.hover_pos ELSE NoPos]

Node(x, y) == [location |-> V(x, y), selected |-> FALSE, dragged |-> FALSE]

Graph0 == <<>>

Graph2 == <<Node(0, 0), Node(4, 0)>>

\* Graph2 with a third node between the two, under OnNone when fitted
Graph3 == <<Node(0, 0), Node(4, 0), Node(2, 0)>>

----------------------------------------------------------------------------
(* Actions *)

InitWith(graphs) ==
    /\ g \in graphs
    /\ meta = MetadataDefault
    /\ ptr = [down |-> FALSE, click |-> NoPos]
    /\ last = [op |-> "init", status |-> "running"]
    /\ nframes = 0
    /\ wg = NoGraph
    /\ calls = <<>>
    /\ wpos = 1

\* one frame: the client builds the widget self, the surface reports resp,
\* Widget::ui runs and, unless it panics or blocks on the way, stores the
\* metadata back into the ui memory; no frame follows one that did not
\* complete
Frame(self, resp, max) ==
    /\ nframes < max
    /\ last.status = "running"
    /\ ValidResponse(ptr, resp) = TRUE
    /\ \E r \in {ui(self, resp, g, meta)} :
           /\ g' = r.out.g
           /\ meta' = IF r.out.status = "running" THEN r.out.meta ELSE meta
           /\ last' = [op |-> "frame", status |-> r.out.status,
                       self |-> self, resp |-> resp,
                       g |-> g, meta |-> meta, comp |-> r.comp,
                       nav |-> [g |-> r.nav.g, changes |-> r.nav.changes],
                       changes |-> r.out.changes, events |-> r.out.events,
                       fitted |-> r.out.fitted,
                       first_click |-> IF resp.double_clicked /\ last.op = "frame"
                                       THEN [self |-> last.self, resp |-> last.resp,
                                             g |-> last.g, changes |-> last.changes]
                                       ELSE <<>>]
    /\ ptr' = PointerAfter(resp)
    /\ nframes' = nframes + 1
    /\ UNCHANGED <<wg, calls, wpos>>

\* GraphView::reset_metadata, called by the client between frames
reset_metadata ==
    /\ last.op = "frame" /\ last.status = "running"
    /\ meta' = MetadataDefault
    /\ last' = [op |-> "reset", status |-> "running", meta |-> meta]
    /\ UNCHANGED <<g, ptr, nframes, wg, calls, wpos>>

NoInteraction ==
    [clicking_enabled |-> FALSE, selection_enabled |-> FALSE,
     selection_multi_enabled |-> FALSE, dragging_enabled |-> FALSE]

FitFirstFrameOnly(zoom_and_pan_enabled) ==
    [zoom_and_pan_enabled |-> zoom_and_pan_enabled,
     fit_to_screen_enabled |-> FALSE,
     zoom_speed |-> <<1, 2>>, screen_padding |-> F(0)]

----------------------------------------------------------------------------
(* SpecDrag: drags of nodes and of the empty canvas, with dragging and
   zoom-and-pan switched on and off between frames *)

MaxFrames == 3

DragWidgets ==
    {new([NoInteraction EXCEPT !.dragging_enabled = d], FitFirstFrameOnly(z),
         TRUE, TRUE) : d \in BOOLEAN, z \in BOOLEAN}

DragResponses ==
    {r \in Responses :
        r.rect = Rect0 /\ r.zoom_delta = F(1) /\ ~r.clicked /\ ~r.double_clicked}

FrameDrag ==
    \E resp \in DragResponses : \E self \in DragWidgets :
        Frame(self, resp, MaxFrames)

InitDrag == InitWith({Graph2})

NextDrag == FrameDrag

SpecDrag == InitDrag /\ [][NextDrag]_vars

----------------------------------------------------------------------------
(* SpecClick: clicks and double clicks under every clicking and selection
   setting, the settings changing between frames *)

ClickWidgets ==
    {new([NoInteraction EXCEPT !.clicking_enabled = c, !.selection_enabled = s,
                               !.selection_multi_enabled = m],
         FitFirstFrameOnly(FALSE), TRUE, TRUE) :
        c \in BOOLEAN, s \in BOOLEAN, m \in BOOLEAN}

ClickResponses ==
    {r \in Responses :
        /\ r.rect = Rect0 /\ r.zoom_delta = F(1)
        /\ ~r.drag_started /\ ~r.dragged /\ ~r.drag_released}

FrameClick ==
    \E resp \in ClickResponses : \E self \in ClickWidgets :
        Frame(self, resp, MaxFrames)

InitClick == InitWith({Graph2})

NextClick == FrameClick

SpecClick == InitClick /\ [][NextClick]_vars

----------------------------------------------------------------------------
(* SpecSel: clicks and drags with selection enabled and multi-selection
   disabled in every frame *)

SelWidgets ==
    {new([NoInteraction EXCEPT !.selection_enabled = TRUE, !.clicking_enabled = c,
                               !.dragging_enabled = d],
         FitFirstFrameOnly(FALSE), TRUE, TRUE) : c \in BOOLEAN, d \in BOOLEAN}

SelResponses ==
    {r \in Responses :
        /\ r.rect = Rect0 /\ r.zoom_delta = F(1)
        /\ r.dragged => r.drag_delta = V(2, 0)}

FrameSel ==
    \E resp \in SelResponses : \E self \in SelWidgets :
        Frame(self, resp, MaxFrames)

InitSel == InitWith({Graph2})

NextSel == FrameSel

SpecSel == InitSel /\ [][NextSel]_vars

----------------------------------------------------------------------------
(* SpecNav: fit-to-screen, zoom gestures, drags and resets under every
   navigation setting, on the canvas away from the screen origin, with
   dragging enabled *)

MaxNavFrames == 2

NavWidgets ==
    {new([NoInteraction EXCEPT !.dragging_enabled = TRUE], sn, TRUE, TRUE) :
        sn \in SettingsNavigations}

NavResponses ==
    {r \in Responses :
        /\ r.rect = Rect1
        /\ ~r.clicked /\ ~r.double_clicked
        /\ r.hover_pos # OnNode2
        /\ r.zoom_delta # F(1) => (~r.dragged /\ ~r.drag_released)
        /\ r.drag_started => r.drag_delta # V(0, 0)}

FrameNav ==
    \E resp \in NavResponses : \E self \in NavWidgets :
        Frame(self, resp, MaxNavFrames)

InitNav == InitWith({Graph0, Graph2})

NextNav == FrameNav \/ reset_metadata

SpecNav == InitNav /\ [][NextNav]_vars

----------------------------------------------------------------------------
(* SpecView: fit-to-screen, zoom gestures, drags and resets on one canvas at
   one zoom speed and padding, over more frames than SpecNav *)

ViewWidgets ==
    {w \in NavWidgets :
        /\ w.settings_navigation.zoom_speed = <<1, 2>>
        /\ w.settings_navigation.screen_padding = F(0)}

ViewResponses ==
    {r \in Responses :
        /\ r.rect = Rect0
        /\ ~r.clicked /\ ~r.double_clicked
        /\ r.hover_pos # OnNode2
        /\ r.zoom_delta # F(1) => (~r.dragged /\ ~r.drag_released)
        /\ r.drag_started => r.drag_delta # V(0, 0)
        /\ (r.zoom_delta = F(1) /\ ~r.dragged /\ ~r.drag_released)
              => r.hover_pos = OnNone}

FrameView ==
    \E resp \in ViewResponses : \E self \in ViewWidgets :
        Frame(self, resp, MaxFrames)

InitView == InitWith({Graph0, Graph2})

NextView == FrameView \/ reset_metadata

SpecView == InitView /\ [][NextView]_vars

----------------------------------------------------------------------------
(* SpecWalk: one walk over every StableGraph within the bounds *)

InitWalk ==
    /\ g = Graph0
    /\ meta = MetadataDefault
    /\ ptr = [down |-> FALSE, click |-> NoPos]
    /\ last = [op |-> "init", status |-> "running"]
    /\ nframes = 0
    /\ wg \in StableGraphs
    /\ calls = <<>>
    /\ wpos = 1

NextWalk == walker_node \/ walker_edge

SpecWalk == InitWalk /\ [][NextWalk]_vars

----------------------------------------------------------------------------
(* SpecOrder: single clicks on three nodes with selection enabled, clicking
   and multi-selection switched on and off between frames *)

OrderWidgets ==
    {new([NoInteraction EXCEPT !.selection_enabled = TRUE, !.clicking_enabled = c,
                               !.selection_multi_enabled = m],
         FitFirstFrameOnly(FALSE), TRUE, TRUE) : c \in BOOLEAN, m \in BOOLEAN}

FrameOrder ==
    \E resp \in ClickResponses : \E self \in OrderWidgets :
        Frame(self, resp, MaxFrames)

InitOrder == InitWith({Graph3})

NextOrder == FrameOrder

SpecOrder == InitOrder /\ [][NextOrder]_vars

----------------------------------------------------------------------------
(* SpecHit: node_by_pos on graphs of two nodes that overlap, touch or lie
   apart, in either index order, under several viewports *)

HitGraphs ==
    {<<Node(a, 0), Node(b, 0)>> : a, b \in {0, 1, 4}}

HitMetas ==
    {[pan |-> pan, zoom |-> z, first_frame |-> FALSE] :
        pan \in {V(0, 0), V(2, 2)}, z \in {F(1), F(2)}}

HitPositions == {V(0, 0), V(1, 0), V(2, 0), V(3, 2), V(4, 2)}

InitHit ==
    /\ g \in HitGraphs
    /\ meta \in HitMetas
    /\ ptr = [down |-> FALSE, click |-> NoPos]
    /\ last = [op |-> "init", status |-> "running"]
    /\ nframes = 0
    /\ wg = NoGraph
    /\ calls = <<>>
    /\ wpos = 1

\* a caller hit-tests a screen position
hit_test ==
    /\ \E p \in HitPositions :
           last' = [op |-> "node_by_pos", status |-> "running", pos |-> p, found |-> node_by_pos(g, meta, p)]
    /\ UNCHANGED <<g, meta, ptr, nframes, wg, calls, wpos>>

NextHit == hit_test

SpecHit == InitHit /\ [][NextHit]_vars

----------------------------------------------------------------------------
(* SpecChan: frames with every interaction enabled, the two subscriber
   channels in every state: not registered, unbounded, bounded (with no or
   with MaxRoom free slots), closed *)

MaxRoom == 3

Channels == {Unbounded, Closed, Bounded(0), Bounded(MaxRoom)}

AllInteractions ==
    [clicking_enabled |-> TRUE, selection_enabled |-> TRUE,
     selection_multi_enabled |-> FALSE, dragging_enabled |-> TRUE]

ChanWidgets ==
    LET w == new(AllInteractions, FitFirstFrameOnly(TRUE), FALSE, FALSE)
    IN  UNION {{w, with_changes(w, cc), with_events(w, ec),
                with_events(with_changes(w, cc), ec)} :
                   cc \in Channels, ec \in Channels}

ChanResponses ==
    {r \in SelResponses : r.hover_pos # OnNode2 /\ ~r.double_clicked}

FrameChan ==
    \E resp \in ChanResponses : \E self \in ChanWidgets :
        Frame(self, resp, MaxNavFrames)

InitChan == InitWith({Graph2})

NextChan == FrameChan

SpecChan == InitChan /\ [][NextChan]_vars

----------------------------------------------------------------------------
(* SpecExt: clicks and drags on a graph the client changes between frames,
   removing nodes and adding nodes at indices the graph does not hold *)

MaxNodes == 3

\* Graph::remove_node, called by the client between frames (here at most
\* once, before any add_node): the index is vacant from then on, the other
\* nodes keep theirs
remove_node ==
    /\ last.status = "running" /\ last.op \in {"init", "frame"}
    /\ \E idx \in DOMAIN g :
           /\ g' = [i \in DOMAIN g \ {idx} |-> g[i]]
           /\ last' = [op |-> "remove_node", status |-> "running", idx |-> idx]
    /\ UNCHANGED <<meta, ptr, nframes, wg, calls, wpos>>

\* Graph::add_node, called by the client between frames (here at most
\* once): the new node, with no flag set, gets an index no node holds, a
\* vacated one or a fresh one
add_node ==
    /\ last.status = "running" /\ last.op # "add_node"
    /\ \E idx \in (1..MaxNodes) \ DOMAIN g :
           /\ g' = [i \in DOMAIN g \cup {idx} |->
                        IF i = idx THEN Node(2, 0) ELSE g[i]]
           /\ last' = [op |-> "add_node", status |-> "running", idx |-> idx]
    /\ UNCHANGED <<meta, ptr, nframes, wg, calls, wpos>>

ExtWidgets ==
    {new([AllInteractions EXCEPT !.selection_multi_enabled = m],
         FitFirstFrameOnly(FALSE), TRUE, TRUE) : m \in BOOLEAN}

\* single clicks, and presses, drags and releases without a click
ExtResponses ==
    {r \in SelResponses :
        /\ ~r.double_clicked
        /\ r.clicked => ~(r.drag_started \/ r.drag_released)}

FrameExt ==
    \E resp \in ExtResponses : \E self \in ExtWidgets :
        Frame(self, resp, MaxNavFrames)

InitExt == InitWith({Graph2})

NextExt == FrameExt \/ remove_node \/ add_node

SpecExt == InitExt /\ [][NextExt]_vars

----------------------------------------------------------------------------
(* Properties *)

Selected(graph) == {i \in DOMAIN graph : graph[i].selected}

Dragged(graph) == {i \in DOMAIN graph : graph[i].dragged}

IsFrame == last.op = "frame"

\* the records of kind k about node i among recs, in order
Records(recs, k, i) ==
    LET Test(rec) == rec.kind = k /\ rec.id = i
    IN  SelectSeq(recs, Test)

\* the node under the pointer when the last frame handled its click
HitNode == node_by_pos(g, meta, last.resp.hover_pos)

\* the node under the pointer when the last frame handled its drag-start
DragHitNode == node_by_pos(last.g, meta, last.resp.hover_pos)

\* the graph after the changes recs are applied to it in order
RECURSIVE Replay(_, _)
Replay(graph, recs) ==
    IF recs = <<>> THEN graph
    ELSE LET rec == Head(recs)
             next == IF rec.kind = "SelectionChanged"
                     THEN [graph EXCEPT ![rec.id].selected = rec.new]
                     ELSE IF rec.kind = "DraggedChanged"
                     THEN [graph EXCEPT ![rec.id].dragged = rec.new]
                     ELSE IF rec.kind = "LocationMoved"
                     THEN [graph EXCEPT ![rec.id].location = rec.new]
                     ELSE graph
         IN  Replay(next, Tail(recs))

\* every record's before-value is the value the field has when the record
\* is applied
RECURSIVE Faithful(_, _)
Faithful(graph, recs) ==
    IF recs = <<>> THEN TRUE
    ELSE LET rec == Head(recs)
             before == IF rec.kind = "SelectionChanged"
                       THEN rec.old = graph[rec.id].selected
                       ELSE IF rec.kind = "DraggedChanged"
                       THEN rec.old = graph[rec.id].dragged
                       ELSE IF rec.kind = "LocationMoved"
                       THEN rec.old = graph[rec.id].location
                       ELSE TRUE
         IN  before /\ Faithful(Replay(graph, <<rec>>), Tail(recs))

DataKinds == {"SelectionChanged", "DraggedChanged", "LocationMoved"}

\* C1: at most one node has its dragged flag set, in every state.
C1_DragExclusivity == Cardinality(Dragged(g)) <= 1

\* C2: with selection enabled and multi-selection disabled in every frame,
\* starting with nothing selected, at most one node is selected in every
\* state, and a click that hits an unselected node B leaves exactly {B}
\* selected (also when another node A was selected by the click before).
C2_SelectionExclusivity ==
    /\ Cardinality(Selected(g)) <= 1
    /\ (IsFrame /\ last.resp.clicked /\ ~last.resp.double_clicked
            /\ HitNode # NoNode /\ ~last.g[HitNode].selected)
        => Selected(g) = {HitNode}

\* C2 witness: node 1 was selected, a click on node 2 left {2} selected.
C2_Witness ==
    /\ IsFrame /\ last.resp.clicked /\ HitNode = 2
    /\ Selected(last.g) = {1}
    /\ Selected(g) = {2}

\* C6: a double click on node n with clicking and selection enabled in both
\* frames, delivered as a frame reporting a click followed by a frame
\* reporting a double click: the first frame's records start with Clicked(n)
\* and end with the SelectionChanged of n, the second frame's records are
\* exactly one DoubleClicked(n), and over both frames n's selected flag is
\* toggled exactly once.
C6_ClickThenDoubleClick ==
    (IsFrame /\ last.resp.double_clicked /\ HitNode # NoNode
        /\ last.first_click # <<>>
        /\ last.self.settings_interaction.clicking_enabled
        /\ last.self.settings_interaction.selection_enabled
        /\ last.first_click.self.settings_interaction.clicking_enabled
        /\ last.first_click.self.settings_interaction.selection_enabled)
    => LET n == HitNode
           first == last.first_click
           both == first.changes \o last.changes
           old == first.g[n].selected
       IN  /\ first.changes # <<>>
           /\ Head(first.changes) = ChangeClicked(n)
           /\ first.changes[Len(first.changes)] = ChangeSelected(n, old, ~old)
           /\ last.changes = <<ChangeDoubleClicked(n)>>
           /\ Len(Records(both, "Clicked", n)) = 1
           /\ Len(Records(both, "SelectionChanged", n)) = 1
           /\ g[n].selected = ~old

\* C6 witness: a double click on node 1, which the first click selected.
C6_Witness ==
    /\ IsFrame /\ last.resp.double_clicked /\ HitNode = 1
    /\ last.first_click # <<>>
    /\ last.self.settings_interaction.clicking_enabled
    /\ last.self.settings_interaction.selection_enabled
    /\ last.first_click.self.settings_interaction.clicking_enabled
    /\ last.first_click.self.settings_interaction.selection_enabled
    /\ last.changes = <<ChangeDoubleClicked(1)>>
    /\ g[1].selected

\* the nodes that are Dragging in the last frame: flagged before it, or
\* flagged by its drag-start
DraggingInFrame ==
    {i \in DOMAIN g :
        last.g[i].dragged \/ Records(last.changes, "DraggedChanged", i) # <<>>}

\* C7: in every frame in which a node is Dragging (the frame in which
\* drag-start set it Dragging included) and the reported drag delta is not
\* zero, the node's location grows by delta / zoom and exactly one
\* LocationMoved record, from the old location to the new one, is emitted.
C7_DragContinuation ==
    (IsFrame /\ last.resp.dragged /\ NonZero(last.resp.drag_delta))
    => \A i \in DraggingInFrame :
          LET old == last.g[i].location
              moved == VAdd(old, VDiv(last.resp.drag_delta, meta.zoom))
          IN  /\ g[i].location = moved
              /\ Records(last.changes, "LocationMoved", i)
                    = <<ChangeLocation(i, old, moved)>>

\* C9: with a subscriber registered, the records of a frame are faithful to
\* its mutations: each record's before-value is the field's value at that
\* point, replaying the records on the graph before the frame gives the
\* graph after it, and no SelectionChanged, DraggedChanged or LocationMoved
\* record has equal before and after values.
C9_ChangeRecordsFaithful ==
    (IsFrame /\ last.self.changes_sender)
    => /\ Faithful(last.g, last.changes)
       /\ Replay(last.g, last.changes) = g
       /\ \A k \in 1..Len(last.changes) :
             last.changes[k].kind \in DataKinds
                => last.changes[k].old # last.changes[k].new

\* C3: the zoom of the viewport is strictly positive in every state.
C3_ZoomPositive == FLt(F(0), meta.zoom)

\* a frame whose only navigation was a zoom gesture
ZoomGestureOnly ==
    /\ IsFrame /\ ~last.fitted
    /\ last.self.settings_navigation.zoom_and_pan_enabled
    /\ ~FEq(last.resp.zoom_delta, F(1))
    /\ ~last.resp.dragged

\* C4: after a zoom gesture, the graph point that was under the cursor
\* before it, (cursor - pan) / zoom as the hit test computes it, is drawn at
\* the cursor again: graph * new_zoom + new_pan = cursor, for every canvas.
C4_ZoomAboutCursor ==
    (ZoomGestureOnly /\ FLt(F(0), last.meta.zoom))
    => LET cursor == last.resp.hover_pos
           under == VDiv(VSub(cursor, last.meta.pan), last.meta.zoom)
       IN  VEq(VAdd(VMul(under, meta.zoom), meta.pan), cursor)

\* a frame whose only navigation was fit-to-screen
FitOnly ==
    /\ IsFrame /\ last.fitted
    /\ FEq(last.resp.zoom_delta, F(1))
    /\ ~last.resp.dragged

\* C5: whenever fit-to-screen executes, whatever pan and zoom were before,
\* zoom = min(canvas.width / P.width, canvas.height / P.height), P being the
\* extent of the bounding box (the fallback extent when it is zero) inflated
\* by the padding, and the centre of the bounding box is drawn at the centre
\* of the canvas.
C5_FitDeterminism ==
    FitOnly
    => LET bounds == last.comp.bounds
           extent == VSub(bounds.max, bounds.min)
           P == VMul(IF extent = VZero THEN <<F(1), F(100)>> ELSE extent,
                     FAdd(F(1), last.self.settings_navigation.screen_padding))
           canvas == RectSize(last.resp.rect)
           centre == VDiv(VAdd(bounds.min, bounds.max), F(2))
       IN  /\ FEq(meta.zoom, FMin(FDiv(canvas[1], P[1]), FDiv(canvas[2], P[2])))
           /\ VEq(VAdd(VMul(centre, meta.zoom), meta.pan),
                  RectCenter(last.resp.rect))

\* C8: first_frame is true initially; every frame leaves it false, and a
\* frame that starts with it true executes fit-to-screen whatever
\* fit_to_screen_enabled is; it is true again only after reset_metadata,
\* which leaves pan = 0, zoom = 1, first_frame = true.
C8_FirstFrameLifecycle ==
    /\ last.op = "init" => meta.first_frame
    /\ IsFrame => /\ ~meta.first_frame
                  /\ last.fitted <=>
                        (last.meta.first_frame
                            \/ last.self.settings_navigation.fit_to_screen_enabled)
    /\ last.op = "reset" => meta = MetadataDefault
    /\ meta.first_frame => last.op \in {"init", "reset"}

\* C8 witness: the frame after a reset ran fit-to-screen with
\* fit_to_screen_enabled false (first_frame was true before the second
\* frame, so a reset came between the two frames).
C8_Witness ==
    /\ IsFrame /\ nframes = 2
    /\ last.meta = MetadataDefault
    /\ ~last.self.settings_navigation.fit_to_screen_enabled
    /\ last.fitted /\ ~meta.first_frame

\* C10: navigation is separate from data changes: when fit-to-screen, the
\* zoom gesture and the pan of a frame are done, no record has been pushed
\* to the Change channel and no node has changed; a frame in which no node
\* is dragged, started to be dragged or clicked changes no node and pushes
\* no record at all, and what it changes of the viewport it reports as
\* navigation events.
C10_NavigationSeparate ==
    IsFrame
    => /\ last.nav.g = last.g
       /\ last.nav.changes = <<>>
       /\ (~last.resp.drag_started /\ ~last.resp.drag_released
              /\ ~last.resp.clicked /\ last.comp.dragged = NoNode)
          => (g = last.g /\ last.changes = <<>>)
       /\ (last.self.events_publisher
              /\ (meta.pan # last.meta.pan \/ meta.zoom # last.meta.zoom))
          => last.events # <<>>

\* C10 witness: a drag of the empty canvas panned the viewport by the drag
\* delta and left the graph alone.
C10_Witness ==
    /\ IsFrame /\ last.resp.dragged /\ ~last.resp.drag_started
    /\ last.comp.dragged = NoNode
    /\ last.events = <<EventPan(last.resp.drag_delta)>>
    /\ meta.pan = VAdd(last.meta.pan, V(2, 0))
    /\ g = last.g /\ last.changes = <<>>

\* the navigation events of kind k among evs, in order
Events(evs, k) ==
    LET Test(ev) == ev.kind = k
    IN  SelectSeq(evs, Test)

\* a frame in which handle_zoom sees a zoom gesture with zoom and pan enabled
ZoomGesture ==
    /\ IsFrame
    /\ last.self.settings_navigation.zoom_and_pan_enabled
    /\ ~FEq(last.resp.zoom_delta, F(1))

\* C11: with an event subscriber registered, a zoom gesture emits exactly one
\* Zoom event (after the one of fit-to-screen, if that ran in the frame),
\* which carries the difference between the zoom the gesture leaves and the
\* zoom it found; a frame without zoom gesture and without fit-to-screen
\* emits no Zoom event.
C11_ZoomEvent ==
    (IsFrame /\ last.self.events_publisher)
    => LET zooms == Events(last.events, "Zoom")
           fits == IF last.fitted THEN 1 ELSE 0
           found == IF last.fitted THEN FAdd(last.meta.zoom, zooms[1].diff)
                    ELSE last.meta.zoom
       IN  /\ ZoomGesture
              => /\ Len(zooms) = fits + 1
                 /\ FEq(zooms[Len(zooms)].diff, FSub(meta.zoom, found))
           /\ (~ZoomGesture /\ ~last.fitted) => zooms = <<>>

\* C11 witness: a zoom gesture alone took the zoom from 3 to 9/2 and its one
\* Zoom event carries 3/2.
C11_Witness ==
    /\ ZoomGesture /\ ~last.fitted
    /\ last.meta.zoom = F(3) /\ meta.zoom = <<9, 2>>
    /\ Events(last.events, "Zoom") = <<EventZoom(<<3, 2>>)>>

\* a frame with a drag of non-zero delta, zoom and pan enabled, and no node
\* Dragging (none flagged before the frame, none flagged by its drag-start)
EmptyCanvasDrag ==
    /\ IsFrame
    /\ last.self.settings_navigation.zoom_and_pan_enabled
    /\ last.resp.dragged /\ NonZero(last.resp.drag_delta)
    /\ DraggingInFrame = {}

\* C12: with an event subscriber registered, an empty-canvas drag adds the
\* raw screen-space drag delta to pan, whatever the zoom, and emits exactly
\* one Pan event carrying that delta: it is the last event of the frame, the
\* only one when neither fit-to-screen nor a zoom gesture ran before it, and
\* then pan has grown by the delta and zoom is unchanged.
C12_PanByDrag ==
    (EmptyCanvasDrag /\ last.self.events_publisher)
    => LET pans == Events(last.events, "Pan")
           fits == IF last.fitted THEN 2 ELSE 0
           gestures == IF ZoomGesture THEN 1 ELSE 0
       IN  /\ Len(pans) = fits + gestures + 1
           /\ last.events[Len(last.events)] = EventPan(last.resp.drag_delta)
           /\ (~last.fitted /\ ~ZoomGesture)
              => /\ last.events = <<EventPan(last.resp.drag_delta)>>
                 /\ VEq(meta.pan, VAdd(last.meta.pan, last.resp.drag_delta))
                 /\ meta.zoom = last.meta.zoom

\* C12 witness: at zoom 3 a drag of the empty canvas by (2,0) moved pan by
\* (2,0) and emitted that one Pan event.
C12_Witness ==
    /\ EmptyCanvasDrag /\ ~last.fitted
    /\ last.meta.zoom = F(3)
    /\ meta.pan = VAdd(last.meta.pan, V(2, 0))
    /\ last.events = <<EventPan(V(2, 0))>>

\* the slot indices that walk has called back for, of the given kind
Visited(kind) == {calls[k].id : k \in {j \in DOMAIN calls : calls[j].kind = kind}}

Occupied(slots) == {k \in DOMAIN slots : slots[k] # Vacant}

WalkDone == wpos > Len(nodes(wg)) + Len(edges(wg))

\* C13: walk calls back for every node exactly once and then for every edge
\* exactly once, no edge callback before the last node callback, and in every
\* callback the lookup node(id) / edge(id) gives the element passed to it.
C13_Walk ==
    /\ \A i, j \in DOMAIN calls :
          /\ (i < j /\ calls[i].kind = "e") => calls[j].kind = "e"
          /\ (i # j /\ calls[i].kind = calls[j].kind) => calls[i].id # calls[j].id
    /\ \A k \in DOMAIN calls :
          /\ calls[k].elem # Vacant
          /\ calls[k].found = calls[k].elem
    /\ Visited("n") \subseteq Occupied(wg.nodes)
    /\ Visited("e") \subseteq Occupied(wg.edges)
    /\ (\E k \in DOMAIN calls : calls[k].kind = "e")
          => Visited("n") = Occupied(wg.nodes)
    /\ WalkDone => /\ Visited("n") = Occupied(wg.nodes)
                   /\ Visited("e") = Occupied(wg.edges)

\* C13 witness: a finished walk over a graph whose first node slot and first
\* edge slot are vacant: one node callback, then one edge callback.
C13_Witness ==
    /\ WalkDone
    /\ wg.nodes[1] = Vacant /\ wg.edges[1] = Vacant
    /\ Len(calls) = 2
    /\ calls[1].kind = "n" /\ calls[1].id = 2
    /\ calls[2].kind = "e" /\ calls[2].id = 2

\* C14: after every frame that reports drag-released no node has its dragged
\* flag set, and for every node that was Dragging in the frame exactly one
\* DraggedChanged(true to false) record is emitted, also when the frame
\* reports drag-start as well.
C14_DragEnd ==
    (IsFrame /\ last.resp.drag_released)
    => /\ Dragged(g) = {}
       /\ last.self.changes_sender
          => \A i \in DraggingInFrame :
                LET Test(rec) == rec = ChangeDragged(i, TRUE, FALSE)
                IN  Len(SelectSeq(last.changes, Test)) = 1

\* C15: a click that misses every node, with selection enabled, leaves no
\* node selected and emits exactly one SelectionChanged(true to false) for
\* each node that was selected and none for the others; with
\* selection_enabled false a click, hit or miss, changes no selected flag,
\* whatever selection_multi_enabled is.
C15_ClickMiss ==
    (IsFrame /\ last.resp.clicked)
    => /\ (HitNode = NoNode /\ last.self.settings_interaction.selection_enabled)
          => /\ Selected(g) = {}
             /\ last.self.changes_sender
                => \A i \in DOMAIN g :
                      Records(last.changes, "SelectionChanged", i)
                         = IF i \in Selected(last.g)
                           THEN <<ChangeSelected(i, TRUE, FALSE)>> ELSE <<>>
       /\ ~last.self.settings_interaction.selection_enabled
          => Selected(g) = Selected(last.g)

\* a single click that hit a node, with selection enabled and a change
\* subscriber registered
NodeClick ==
    /\ IsFrame /\ last.resp.clicked /\ ~last.resp.double_clicked
    /\ HitNode # NoNode
    /\ last.self.settings_interaction.selection_enabled
    /\ last.self.changes_sender

\* the Clicked record of node n, if clicking is enabled
ClickedRecord(n) ==
    IF last.self.settings_interaction.clicking_enabled
    THEN <<ChangeClicked(n)>> ELSE <<>>

\* C16: a single click on an unselected node with clicking and selection
\* enabled and multi-selection disabled emits the Clicked record first, then
\* one SelectionChanged(true to false) for each node that was selected, then
\* SelectionChanged(false to true) for the hit node last, and leaves only
\* the hit node selected; with multi-selection enabled the click changes no
\* other node's flag; a click on a selected node only toggles that node off.
C16_ClickOrder ==
    NodeClick
    => LET n == HitNode
           prev == Selected(last.g)
           recs == last.changes
           multi == last.self.settings_interaction.selection_multi_enabled
       IN  /\ (n \notin prev /\ ~multi)
              => /\ recs # <<>>
                 /\ recs[Len(recs)] = ChangeSelected(n, FALSE, TRUE)
                 /\ SubSeq(recs, 1, Len(ClickedRecord(n))) = ClickedRecord(n)
                 /\ Len(recs) = Len(ClickedRecord(n)) + Cardinality(prev) + 1
                 /\ \A i \in prev :
                       Records(recs, "SelectionChanged", i)
                          = <<ChangeSelected(i, TRUE, FALSE)>>
                 /\ Selected(g) = {n}
           /\ (n \notin prev /\ multi)
              => /\ recs = ClickedRecord(n) \o <<ChangeSelected(n, FALSE, TRUE)>>
                 /\ Selected(g) = prev \cup {n}
           /\ n \in prev
              => /\ recs = ClickedRecord(n) \o <<ChangeSelected(n, TRUE, FALSE)>>
                 /\ Selected(g) = prev \ {n}

\* C16 witness: nodes 1 and 2 were selected, a click on node 3 with clicking
\* enabled and multi-selection disabled emitted Clicked(3), the two
\* deselections and the selection of node 3, in this order.
C16_Witness ==
    /\ NodeClick /\ HitNode = 3
    /\ Selected(last.g) = {1, 2}
    /\ last.changes = <<ChangeClicked(3), ChangeSelected(1, TRUE, FALSE),
                        ChangeSelected(2, TRUE, FALSE),
                        ChangeSelected(3, FALSE, TRUE)>>

\* the square of the distance of node i from the graph point p
DistanceSq(i, p) ==
    LET u == VSub(g[i].location, p)
    IN  FAdd(FMul(u[1], u[1]), FMul(u[2], u[2]))

\* C17: node_by_pos returns no node exactly when no node contains the point
\* (screen - pan) / zoom, and otherwise a node that contains it and is
\* closest to it among the nodes that contain it.
C17_HitTest ==
    last.op = "node_by_pos"
    => LET p == VDiv(VSub(last.pos, meta.pan), meta.zoom)
           containing == {i \in DOMAIN g : FLe(DistanceSq(i, p), FMul(Radius, Radius))}
       IN  /\ last.found = NoNode <=> containing = {}
           /\ last.found # NoNode
              => /\ last.found \in containing
                 /\ \A j \in containing :
                       FLe(DistanceSq(last.found, p), DistanceSq(j, p))

\* fit-to-screen is triggered in the last frame
FitTriggered ==
    last.meta.first_frame \/ last.self.settings_navigation.fit_to_screen_enabled

\* C18: a frame leaves pan and zoom unchanged unless fit-to-screen is
\* triggered, or zoom and pan is enabled and the frame has a zoom gesture or
\* a drag of the empty canvas (a drag of non-zero delta while no node is
\* Dragging); with zoom_and_pan_enabled and fit_to_screen_enabled false, pan
\* and zoom stay as they are in every frame after the first.
C18_ViewportFrame ==
    IsFrame
    => /\ (meta.pan # last.meta.pan \/ meta.zoom # last.meta.zoom)
          => (FitTriggered \/ ZoomGesture \/ EmptyCanvasDrag)
       /\ (~last.self.settings_navigation.zoom_and_pan_enabled
              /\ ~last.self.settings_navigation.fit_to_screen_enabled
              /\ ~last.meta.first_frame)
          => (meta.pan = last.meta.pan /\ meta.zoom = last.meta.zoom)

\* the nodes whose dragged flag the last frame set
NewlyDragged == Dragged(g) \ Dragged(last.g)

\* C19: a frame with dragging_enabled false sets no dragged flag and moves
\* no node; a frame sets the dragged flag only on its drag-start and only on
\* the node under the pointer (on none if the pointer is over none); and a
\* node that is Dragging is no longer Dragging after the frame that reports
\* the release of the drag, also when dragging_enabled was switched off in
\* between.
C19_DraggingDisabled ==
    IsFrame
    => /\ ~last.self.settings_interaction.dragging_enabled
          => /\ NewlyDragged = {}
             /\ \A i \in DOMAIN g : g[i].location = last.g[i].location
       /\ NewlyDragged # {}
          => (last.resp.drag_started /\ NewlyDragged = {DragHitNode})
       /\ last.resp.drag_released
          => \A i \in Dragged(last.g) : ~g[i].dragged

\* C20: every frame runs to completion, whatever the state of the subscriber
\* channels: no send panics or blocks, and the frame has stored the viewport
\* (with first_frame cleared) when it ends.
C20_FrameCompletes ==
    IsFrame => (last.status = "running" /\ ~meta.first_frame)

\* the node indices the records of a frame are about
RecordIds(recs) == {recs[k].id : k \in 1..Len(recs)}

\* C21: no frame fails the lookup of a node index, also when the client has
\* removed and added nodes since the frame before: the dragged index and
\* the selected indices of the frame's computed state, and every index the
\* frame has changed a node by, are indices the graph holds in that frame.
C21_NoLookupFailure ==
    IsFrame
    => /\ last.status # "no_node"
       /\ last.comp.dragged # NoNode => last.comp.dragged \in DOMAIN last.g
       /\ \A k \in 1..Len(last.comp.selected) :
              last.comp.selected[k] \in DOMAIN last.g
       /\ RecordIds(last.changes) \subseteq DOMAIN last.g
       /\ DOMAIN g = DOMAIN last.g

\* C21: a frame on a graph from which node 1 was removed and to which a node
\* was added at a new index, that deselects the selected node 2 by a click
\* where node 1 was
C21_Witness ==
    /\ IsFrame
    /\ DOMAIN last.g = {2, 3}
    /\ last.comp.selected = <<2>>
    /\ last.resp.clicked /\ last.resp.hover_pos = OnNode1
    /\ ~g[2].selected

\* the nodes the last frame has moved
MovedNodes ==
    {i \in DOMAIN g :
        \/ g[i].location # last.g[i].location
        \/ Records(last.changes, "LocationMoved", i) # <<>>}

\* the Pan events of the last frame that neither fit-to-screen nor a zoom
\* gesture accounts for: those of a pan by the drag delta
DragPans ==
    Len(Events(last.events, "Pan")) - (IF last.fitted THEN 2 ELSE 0)
        - (IF ZoomGesture THEN 1 ELSE 0)

\* C22: no frame applies its drag delta both to pan and to a node: a frame
\* that moves a node emits no Pan event for the drag and, unless
\* fit-to-screen ran in it, leaves pan as it was (a drag comes with no zoom
\* gesture); a frame that pans by the drag delta moves no node.
C22_PanOrMove ==
    (IsFrame /\ last.self.events_publisher)
    => /\ DragPans \in {0, 1}
       /\ MovedNodes # {}
          => /\ DragPans = 0
             /\ ~ZoomGesture
             /\ ~last.fitted => meta.pan = last.meta.pan
       /\ DragPans = 1
          => /\ MovedNodes = {}
             /\ last.events[Len(last.events)] = EventPan(last.resp.drag_delta)

\* C22 witness: with zoom and pan enabled, a frame moved the dragged node 1
\* by the drag delta and left pan alone.
C22_Witness ==
    /\ IsFrame /\ ~last.fitted
    /\ last.self.settings_navigation.zoom_and_pan_enabled
    /\ last.resp.dragged /\ NonZero(last.resp.drag_delta)
    /\ MovedNodes = {1}
    /\ meta.pan = last.meta.pan /\ last.events = <<>>

====
